---- MODULE Spec2Model ----
(***************************************************************************)
(* Model of the URL shortener core: the URL value object, the random code *)
(* generator, the in-memory repository (two dict indices and an id        *)
(* counter) and ShortenerService.shorten_url / resolve_url.               *)
(*                                                                         *)
(* Strings are sequences of one-character strings.  Entities are mutable  *)
(* objects, so they live in a heap and the two indices hold references.   *)
(* A service call is a sequence of steps, one per repository operation    *)
(* (a dict read or write is one atomic step of the interpreter); callers  *)
(* either run one call at a time or interleave their steps.               *)
(***************************************************************************)
EXTENDS Integers, Sequences, FiniteSets, TLC

(* ------------------------------ bounds --------------------------------- *)
NumThreads == 2
MaxCalls == 3
NumCodeChars == 2
CodeLength == 1
MaxNumber == 130
MaxNews == 3

Threads == 1..NumThreads
None == 0

(* ------------------------------ strings -------------------------------- *)
UpperChars == <<"A", "B", "F", "H", "P", "S", "T">>
LowerChars == <<"a", "b", "f", "h", "p", "s", "t">>

\* str.lower() on one character
LowerChar(c) ==
  IF \E i \in 1..Len(UpperChars) : UpperChars[i] = c
  THEN LowerChars[CHOOSE i \in 1..Len(UpperChars) : UpperChars[i] = c]
  ELSE c

\* str.lower()
Lower(s) == [i \in 1..Len(s) |-> LowerChar(s[i])]

IsAlpha(c) ==
  \E i \in 1..Len(UpperChars) : UpperChars[i] = c \/ LowerChars[i] = c

\* str.find(c): first index of c in s, 0 when absent
Find(s, c) ==
  IF \E i \in 1..Len(s) : s[i] = c
  THEN CHOOSE i \in 1..Len(s) : s[i] = c /\ \A j \in 1..(i - 1) : s[j] # c
  ELSE 0

\* s[i:] with i counted from 1
Drop(s, i) == IF i > Len(s) THEN <<>> ELSE SubSeq(s, i, Len(s))

(* --------------------------- URL value object -------------------------- *)
\* urllib.parse.urlparse restricted to scheme, netloc and the rest (the
\* inputs carry no ';', '?' or '#'): the scheme is the all-letter prefix
\* before the first ':', lower-cased by the parser; the netloc is what
\* follows "//" up to the next "/".
urlparse(raw) ==
  LET i == Find(raw, ":")
      hasScheme == i > 1 /\ \A j \in 1..(i - 1) : IsAlpha(raw[j])
      scheme == IF hasScheme THEN Lower(SubSeq(raw, 1, i - 1)) ELSE <<>>
      rest == IF hasScheme THEN Drop(raw, i + 1) ELSE raw
      hasNetloc == Len(rest) >= 2 /\ rest[1] = "/" /\ rest[2] = "/"
      afterSlashes == Drop(rest, 3)
      k == Find(afterSlashes, "/")
      netloc == IF ~hasNetloc THEN <<>>
                ELSE IF k = 0 THEN afterSlashes
                ELSE SubSeq(afterSlashes, 1, k - 1)
      path == IF ~hasNetloc THEN rest
              ELSE IF k = 0 THEN <<>>
              ELSE Drop(afterSlashes, k)
  IN [scheme |-> scheme, netloc |-> netloc, path |-> path]

\* urllib.parse.urlunparse for a parse result with a non-empty netloc
urlunparse(p) ==
  LET path == IF p.path # <<>> /\ p.path[1] # "/" THEN <<"/">> \o p.path
              ELSE p.path
      url == <<"/", "/">> \o p.netloc \o path
  IN IF p.scheme # <<>> THEN p.scheme \o <<":">> \o url ELSE url

HTTP == <<"h", "t", "t", "p">>
HTTPS == <<"h", "t", "t", "p", "s">>

\* mutation of URLInvalid: the scheme is not compared with http and https
URLInvalidAnyScheme(raw) ==
  LET parsed == urlparse(raw)
  IN parsed.scheme = <<>> \/ parsed.netloc = <<>>

\* URL.__post_init__ raises ValueError
URLInvalid(raw) ==
  LET parsed == urlparse(raw)
  IN \/ parsed.scheme = <<>>
     \/ parsed.netloc = <<>>
     \/ parsed.scheme \notin {HTTP, HTTPS}

\* mutation of URLValue: the whole string is lower-cased
URLValueLowerAll(raw) == Lower(urlunparse(urlparse(raw)))

\* str(URL(raw)) for a raw string that passes validation
URLValue(raw) ==
  LET parsed == urlparse(raw)
      normalised == [parsed EXCEPT !.scheme = Lower(parsed.scheme),
                                   !.netloc = Lower(parsed.netloc)]
  IN urlunparse(normalised)

\* the raw strings handed to shorten_url
RawURLs ==
  { <<"h", "t", "t", "p", ":", "/", "/", "a", "/", "P">>,
    <<"H", "T", "T", "P", ":", "/", "/", "A", "/", "P">>,
    <<"h", "t", "t", "p", ":", "/", "/", "a", "/", "p">>,
    <<"f", "t", "p", ":", "/", "/", "a">>,
    <<"a", "/", "P">>,
    <<"h", "t", "t", "p", ":", "/", "/", "/", "P">> }

ValidURLs == { URLValue(raw) : raw \in { r \in RawURLs : ~URLInvalid(r) } }

(* ----------------------------- code generator -------------------------- *)
Characters == <<"a", "b", "c", "d">>
CodeChars == { Characters[i] : i \in 1..NumCodeChars }

\* RandomCodeGenerator.generate: any string of the configured length
Generate == [1..CodeLength -> CodeChars]

Codes == Generate

(* ------------------------------- state --------------------------------- *)
VARIABLES
  storage,     \* InMemoryShortURLRepository._storage: code -> entity reference
  url_index,   \* InMemoryShortURLRepository._url_index: original_url -> reference
  id_counter,  \* InMemoryShortURLRepository._id_counter
  heap,        \* the ShortURL objects ever constructed; a reference is an index
  th,          \* per caller: position in the running call and its locals
  history,     \* the completed calls with their outcomes, in order of return
  issued,      \* the values returned by next_id, in order of return
  cls,         \* InMemoryShortURLRepository._instance, ._lock and the callers of __new__
  responses,   \* the HTTP status sent for each completed service call
  b62          \* the base62 utility: its argument and what it returned

\* the state outside the service and the contents of the repository
outside == <<cls, responses, b62>>

vars == <<storage, url_index, id_counter, heap, th, history, issued, cls, responses, b62>>

Refs == 1..Len(heap)

\* ShortURL(id=..., original_url=..., short_code=...): hits starts at 0
ShortURL(id, original_url, short_code) ==
  [id |-> id, original_url |-> original_url, short_code |-> short_code, hits |-> 0]

\* ShortURL.increment_hits: the counter of the object goes up by one
increment_hits(e) == [e EXCEPT !.hits = @ + 1]

NoEntity == [id |-> None, original_url |-> <<>>, short_code |-> <<>>, hits |-> 0]

(* ------------------------------ repository ----------------------------- *)
\* dict[key] = value
Put(d, key, value) ==
  [k \in (DOMAIN d) \cup {key} |-> IF k = key THEN value ELSE d[k]]

\* InMemoryShortURLRepository.get_by_code
get_by_code(c) == IF c \in DOMAIN storage THEN storage[c] ELSE None

\* InMemoryShortURLRepository.get_by_original
get_by_original(u) == IF u \in DOMAIN url_index THEN url_index[u] ELSE None

\* mutation of add_storage: the code index is keyed by the URL
add_storage_by_url(e, ref) == Put(storage, e.original_url, ref)

\* InMemoryShortURLRepository.add, first statement
add_storage(e, ref) == Put(storage, e.short_code, ref)

\* mutation of add_url_index: the URL index is not written
add_url_index_skipped(e, ref) == url_index

\* InMemoryShortURLRepository.add, second statement
add_url_index(e, ref) == Put(url_index, e.original_url, ref)

\* InMemoryShortURLRepository.clear: the value of each index after the call
clear_storage == <<>>
clear_url_index == url_index

\* the entities reachable through either index
Stored == { storage[c] : c \in DOMAIN storage } \cup { url_index[u] : u \in DOMAIN url_index }

(* ------------------------------- callers ------------------------------- *)
IdleLocals ==
  [pc |-> "idle", op |-> "none", arg |-> <<>>, url_vo |-> <<>>, code |-> <<>>,
   current |-> 0, tmp |-> 0, ent |-> None, start |-> 0]

AllIdle == \A t \in Threads : th[t].pc = "idle"

Running == Cardinality({ t \in Threads : th[t].pc # "idle" })

\* the outcome of a call that returned an entity
Ok(l, ref, e) ==
  [op |-> l.op, arg |-> l.arg, start |-> l.start, kind |-> "ok", err |-> "none",
   code |-> <<>>, ref |-> ref, ent |-> e]

\* the outcome of a call that raised; code is the short code the message quotes
Raised(l, err, code) ==
  [op |-> l.op, arg |-> l.arg, start |-> l.start, kind |-> "err", err |-> err,
   code |-> code, ref |-> None, ent |-> NoEntity]

Return(t, outcome) ==
  /\ history' = Append(history, outcome)
  /\ th' = [th EXCEPT ![t] = IdleLocals]

\* the attributes __new__ sets on the instance
Attributes == {"_storage", "_url_index", "_id_counter"}

\* the class before the first construction
ClassUnused ==
  [instance |-> None, lock |-> None, objects |-> 0, attrs |-> {},
   inits |-> [a \in Attributes |-> 0],
   pc |-> [t \in Threads |-> "idle"], log |-> <<>>]

\* the class after the construction at import time (ShortenerRequestHandler._repository)
ClassConstructed ==
  [ClassUnused EXCEPT !.instance = 1, !.objects = 1, !.attrs = Attributes,
                      !.inits = [a \in Attributes |-> 1]]

B62Idle == [pc |-> "idle", number |-> 0, text |-> <<>>, result |-> 0]

\* the repository constructed and empty, no call made yet
Init ==
  /\ storage = <<>>
  /\ url_index = <<>>
  /\ id_counter = 1
  /\ heap = <<>>
  /\ th = [t \in Threads |-> IdleLocals]
  /\ history = <<>>
  /\ issued = <<>>
  /\ cls = ClassConstructed
  /\ responses = <<>>
  /\ b62 = B62Idle

(* ------------------------ ShortenerService.shorten_url ----------------- *)
\* mutation of ShortenOrder: the id is taken before the duplicate check
ShortenOrderIdFirst ==
  <<"validate", "next_id", "next_id_load", "next_id_store", "lookup", "generate",
    "add_storage", "add_url_index">>

\* the statements of shorten_url in the order the method executes them
ShortenOrder ==
  <<"validate", "lookup", "generate", "next_id", "next_id_load", "next_id_store",
    "add_storage", "add_url_index">>

\* the statement that follows pc when pc does not raise
PcAfter(pc) ==
  LET i == CHOOSE k \in DOMAIN ShortenOrder : ShortenOrder[k] = pc
  IN ShortenOrder[i + 1]

CallShorten(t) ==
  /\ th[t].pc = "idle"
  /\ Len(history) + Running < MaxCalls
  /\ \E raw \in RawURLs :
       th' = [th EXCEPT ![t] = [IdleLocals EXCEPT !.pc = "validate", !.op = "shorten",
                                                  !.arg = raw, !.start = Len(history)]]
  /\ UNCHANGED <<outside, storage, url_index, id_counter, heap, history, issued>>

\* url_vo = URL(url), a ValueError becoming InvalidURLError
ShortenValidate(t) ==
  /\ th[t].pc = "validate"
  /\ IF URLInvalid(th[t].arg)
     THEN Return(t, Raised(th[t], "InvalidURLError", <<>>))
     ELSE /\ th' = [th EXCEPT ![t].pc = PcAfter("validate"),
                                   ![t].url_vo = URLValue(th[t].arg)]
          /\ UNCHANGED history
  /\ UNCHANGED <<outside, storage, url_index, id_counter, heap, issued>>

\* mutation of LookupKey: the duplicate check uses the raw string
LookupKeyRaw(l) == l.arg

\* the key of the duplicate check: str(url_vo)
LookupKey(l) == l.url_vo

\* existing = get_by_original(str(url_vo)); raise when it is there
ShortenLookup(t) ==
  /\ th[t].pc = "lookup"
  /\ LET existing == get_by_original(LookupKey(th[t]))
     IN IF existing # None
        THEN Return(t, Raised(th[t], "URLAlreadyShortenedError", heap[existing].short_code))
        ELSE /\ th' = [th EXCEPT ![t].pc = PcAfter("lookup")]
             /\ UNCHANGED history
  /\ UNCHANGED <<outside, storage, url_index, id_counter, heap, issued>>

\* mutation of UniqueCode: the first candidate is taken without the check
UniqueCodeUnchecked(c) == TRUE

\* _generate_unique_code: the candidates that end the loop
UniqueCode(c) == get_by_code(c) = None

\* one iteration of the loop of _generate_unique_code
GenerateUniqueCode(t) ==
  /\ th[t].pc = "generate"
  /\ \E c \in Generate :
       IF UniqueCode(c)
       THEN th' = [th EXCEPT ![t].pc = PcAfter("generate"), ![t].code = c]
       ELSE UNCHANGED th
  /\ UNCHANGED <<outside, storage, url_index, id_counter, heap, history, issued>>

\* next_id: current = self._id_counter
NextIdRead(t) ==
  /\ th[t].pc = "next_id"
  /\ th' = [th EXCEPT ![t].pc = "next_id_load", ![t].current = id_counter]
  /\ UNCHANGED <<outside, storage, url_index, id_counter, heap, history, issued>>

\* next_id: the read half of self._id_counter += 1
NextIdLoad(t) ==
  /\ th[t].pc = "next_id_load"
  /\ th' = [th EXCEPT ![t].pc = "next_id_store", ![t].tmp = id_counter]
  /\ UNCHANGED <<outside, storage, url_index, id_counter, heap, history, issued>>

\* mutation of NextCounter: the counter is written back without the increment
NextCounterSame(l) == l.tmp

\* the value self._id_counter += 1 writes back
NextCounter(l) == l.tmp + 1

\* next_id: the write half of self._id_counter += 1, and return current
NextIdStore(t) ==
  /\ th[t].pc = "next_id_store"
  /\ id_counter' = NextCounter(th[t])
  /\ issued' = Append(issued, th[t].current)
  /\ th' = [th EXCEPT ![t].pc = PcAfter("next_id_store")]
  /\ UNCHANGED <<outside, storage, url_index, heap, history>>

\* short_url = ShortURL(...); add, first statement
AddStorage(t) ==
  /\ th[t].pc = "add_storage"
  /\ LET e == ShortURL(th[t].current, th[t].url_vo, th[t].code)
         ref == Len(heap) + 1
     IN /\ heap' = Append(heap, e)
        /\ storage' = add_storage(e, ref)
        /\ th' = [th EXCEPT ![t].pc = "add_url_index", ![t].ent = ref]
  /\ UNCHANGED <<outside, url_index, id_counter, history, issued>>

\* add, second statement; return short_url
AddUrlIndex(t) ==
  /\ th[t].pc = "add_url_index"
  /\ LET ref == th[t].ent
     IN /\ url_index' = add_url_index(heap[ref], ref)
        /\ Return(t, Ok(th[t], ref, heap[ref]))
  /\ UNCHANGED <<outside, storage, id_counter, heap, issued>>

(* ------------------------ ShortenerService.resolve_url ----------------- *)
CallResolve(t) ==
  /\ th[t].pc = "idle"
  /\ Len(history) + Running < MaxCalls
  /\ \E c \in Codes :
       th' = [th EXCEPT ![t] = [IdleLocals EXCEPT !.pc = "get_by_code", !.op = "resolve",
                                                  !.arg = c, !.start = Len(history)]]
  /\ UNCHANGED <<outside, storage, url_index, id_counter, heap, history, issued>>

\* the error resolve_url raises for a code that is not stored
NotFoundError == "URLAlreadyShortenedError"

\* entity = get_by_code(code); raise when it is absent
ResolveLookup(t) ==
  /\ th[t].pc = "get_by_code"
  /\ LET entity == get_by_code(th[t].arg)
     IN IF entity = None
        THEN Return(t, Raised(th[t], NotFoundError, th[t].arg))
        ELSE /\ th' = [th EXCEPT ![t].pc = "increment_hits", ![t].ent = entity]
             /\ UNCHANGED history
  /\ UNCHANGED <<outside, storage, url_index, id_counter, heap, issued>>

\* mutation of HeapAfterHit: the increment lands on a copy of the entity
HeapAfterHitCopy(ref) == heap

\* mutation of HeapAfterHit: the counter is set instead of incremented
HeapAfterHitSet(ref) == [heap EXCEPT ![ref] = [heap[ref] EXCEPT !.hits = 1]]

\* mutation of HeapAfterHit: the counter of every entity goes up
HeapAfterHitAll(ref) == [r \in DOMAIN heap |-> increment_hits(heap[r])]

\* the heap after entity.increment_hits(): the object the index refers to
\* is the one that changes
HeapAfterHit(ref) == [heap EXCEPT ![ref] = increment_hits(heap[ref])]

\* entity.increment_hits(); return entity
ResolveIncrement(t) ==
  /\ th[t].pc = "increment_hits"
  /\ LET ref == th[t].ent
     IN /\ heap' = HeapAfterHit(ref)
        /\ Return(t, Ok(th[t], ref, heap'[ref]))
  /\ UNCHANGED <<outside, storage, url_index, id_counter, issued>>

(* --------------------------- specifications ---------------------------- *)
Step(t) ==
  \/ CallShorten(t)
  \/ ShortenValidate(t)
  \/ ShortenLookup(t)
  \/ GenerateUniqueCode(t)
  \/ NextIdRead(t)
  \/ NextIdLoad(t)
  \/ NextIdStore(t)
  \/ AddStorage(t)
  \/ AddUrlIndex(t)
  \/ CallResolve(t)
  \/ ResolveLookup(t)
  \/ ResolveIncrement(t)

\* no other caller is inside a call
Alone(t) == \A o \in Threads \ {t} : th[o].pc = "idle"

\* callers whose steps interleave
Next == \E t \in Threads : Step(t)

Spec == Init /\ [][Next]_vars

\* a step of a caller while no other caller is inside a call
SeqStep(t) ==
  \/ Alone(t) /\ CallShorten(t)
  \/ Alone(t) /\ ShortenValidate(t)
  \/ Alone(t) /\ ShortenLookup(t)
  \/ Alone(t) /\ GenerateUniqueCode(t)
  \/ Alone(t) /\ NextIdRead(t)
  \/ Alone(t) /\ NextIdLoad(t)
  \/ Alone(t) /\ NextIdStore(t)
  \/ Alone(t) /\ AddStorage(t)
  \/ Alone(t) /\ AddUrlIndex(t)
  \/ Alone(t) /\ CallResolve(t)
  \/ Alone(t) /\ ResolveLookup(t)
  \/ Alone(t) /\ ResolveIncrement(t)

\* calls executed one at a time
SeqNext == \E t \in Threads : SeqStep(t)

SeqSpec == Init /\ [][SeqNext]_vars

(* ------------------- the repository called directly -------------------- *)
\* repo.add(ShortURL(original_url=..., short_code=...)) with a new object
RepoAdd ==
  /\ AllIdle
  /\ Len(history) < MaxCalls
  /\ \E c \in Codes, u \in ValidURLs :
       LET e == ShortURL(None, u, c)
           ref == Len(heap) + 1
           l == [IdleLocals EXCEPT !.op = "add", !.arg = c, !.start = Len(history)]
       IN /\ heap' = Append(heap, e)
          /\ storage' = add_storage(e, ref)
          /\ url_index' = add_url_index(e, ref)
          /\ history' = Append(history, Ok(l, ref, e))
  /\ UNCHANGED <<outside, id_counter, th, issued>>

\* repo.add(e) with an object that was added before
RepoReAdd ==
  /\ AllIdle
  /\ Len(history) < MaxCalls
  /\ \E ref \in Refs :
       LET e == heap[ref]
           l == [IdleLocals EXCEPT !.op = "add", !.arg = e.short_code, !.start = Len(history)]
       IN /\ storage' = add_storage(e, ref)
          /\ url_index' = add_url_index(e, ref)
          /\ history' = Append(history, Ok(l, ref, e))
  /\ UNCHANGED <<outside, id_counter, heap, th, issued>>

\* repo.clear()
Clear ==
  /\ AllIdle
  /\ Len(history) < MaxCalls
  /\ storage' = clear_storage
  /\ url_index' = clear_url_index
  /\ history' = Append(history, Ok([IdleLocals EXCEPT !.op = "clear", !.start = Len(history)],
                                   None, NoEntity))
  /\ UNCHANGED <<outside, id_counter, heap, th, issued>>

\* a sequence of add calls
AddNext == RepoAdd \/ RepoReAdd

AddSpec == Init /\ [][AddNext]_vars

\* service calls one at a time, with clear() between them
RepoNext == SeqNext \/ Clear

RepoSpec == Init /\ [][RepoNext]_vars

\* service calls one at a time, with add() and clear() between them
RepoAllNext == SeqNext \/ Clear \/ RepoAdd \/ RepoReAdd

RepoAllSpec == Init /\ [][RepoAllNext]_vars

(* ------------------ InMemoryShortURLRepository.__new__ ------------------ *)
\* the frame of a step of __new__ that writes no attribute of the instance
NewFrame == UNCHANGED <<storage, url_index, id_counter, heap, th, history, issued,
                        responses, b62>>

Constructing == Cardinality({ t \in Threads : cls.pc[t] # "idle" })

\* InMemoryShortURLRepository()
NewCall(t) ==
  /\ cls.pc[t] = "idle"
  /\ Len(cls.log) + Constructing < MaxNews
  /\ cls' = [cls EXCEPT !.pc[t] = "check"]
  /\ NewFrame

\* if cls._instance is None, outside the lock
NewCheck(t) ==
  /\ cls.pc[t] = "check"
  /\ cls' = [cls EXCEPT !.pc[t] = IF cls.instance = None THEN "acquire" ELSE "return_fast"]
  /\ NewFrame

\* with cls._lock
NewAcquire(t) ==
  /\ cls.pc[t] = "acquire"
  /\ cls.lock = None
  /\ cls' = [cls EXCEPT !.pc[t] = "recheck", !.lock = t]
  /\ NewFrame

\* mutation of StillNone: no second check inside the lock
StillNoneUnchecked == TRUE

\* if cls._instance is None, inside the lock
StillNone == cls.instance = None

NewRecheck(t) ==
  /\ cls.pc[t] = "recheck"
  /\ cls' = IF StillNone
            THEN [cls EXCEPT !.pc[t] = "alloc"]
            ELSE [cls EXCEPT !.pc[t] = "return_rechecked", !.lock = None]
  /\ NewFrame

\* cls._instance = super().__new__(cls): a new object without attributes
NewAlloc(t) ==
  /\ cls.pc[t] = "alloc"
  /\ cls' = [cls EXCEPT !.pc[t] = "init_storage", !.objects = @ + 1,
                        !.instance = cls.objects + 1, !.attrs = {}]
  /\ NewFrame

\* cls._instance._storage = {}
NewInitStorage(t) ==
  /\ cls.pc[t] = "init_storage"
  /\ storage' = <<>>
  /\ cls' = [cls EXCEPT !.pc[t] = "init_url_index", !.attrs = @ \cup {"_storage"},
                        !.inits["_storage"] = @ + 1]
  /\ UNCHANGED <<url_index, id_counter, heap, th, history, issued, responses, b62>>

\* cls._instance._url_index = {}
NewInitUrlIndex(t) ==
  /\ cls.pc[t] = "init_url_index"
  /\ url_index' = <<>>
  /\ cls' = [cls EXCEPT !.pc[t] = "init_id_counter", !.attrs = @ \cup {"_url_index"},
                        !.inits["_url_index"] = @ + 1]
  /\ UNCHANGED <<storage, id_counter, heap, th, history, issued, responses, b62>>

\* cls._instance._id_counter = 1, and the end of the with block
NewInitCounter(t) ==
  /\ cls.pc[t] = "init_id_counter"
  /\ id_counter' = 1
  /\ cls' = [cls EXCEPT !.pc[t] = "return_created", !.lock = None,
                        !.attrs = @ \cup {"_id_counter"},
                        !.inits["_id_counter"] = @ + 1]
  /\ UNCHANGED <<storage, url_index, heap, th, history, issued, responses, b62>>

\* return cls._instance
NewReturn(t) ==
  /\ cls.pc[t] \in {"return_fast", "return_rechecked", "return_created"}
  /\ cls' = [cls EXCEPT !.pc[t] = "idle",
                        !.log = Append(@, [caller |-> t, path |-> cls.pc[t],
                                           instance |-> cls.instance])]
  /\ NewFrame

\* caller t holds a repository
Holds(t) == \E i \in DOMAIN cls.log : cls.log[i].caller = t

\* repo.add(ShortURL(...)) by a caller that holds the repository; an
\* attribute that is not set yet raises AttributeError at its statement
UseAdd(t) ==
  /\ Holds(t)
  /\ cls.pc[t] = "idle"
  /\ Len(history) < MaxCalls
  /\ \E c \in Codes, u \in ValidURLs :
       LET e == ShortURL(None, u, c)
           ref == Len(heap) + 1
           l == [IdleLocals EXCEPT !.op = "add", !.arg = c, !.start = Len(history)]
       IN /\ heap' = Append(heap, e)
          /\ storage' = IF "_storage" \in cls.attrs THEN add_storage(e, ref) ELSE storage
          /\ url_index' = IF {"_storage", "_url_index"} \subseteq cls.attrs
                          THEN add_url_index(e, ref) ELSE url_index
          /\ history' = Append(history,
                               IF {"_storage", "_url_index"} \subseteq cls.attrs
                               THEN Ok(l, ref, e)
                               ELSE Raised(l, "AttributeError", <<>>))
  /\ UNCHANGED <<id_counter, th, issued, cls, responses, b62>>

\* repo.next_id() by a caller that holds the repository, one call at a time
UseNextId(t) ==
  /\ Holds(t)
  /\ cls.pc[t] = "idle"
  /\ "_id_counter" \in cls.attrs
  /\ Len(issued) < MaxCalls
  /\ issued' = Append(issued, id_counter)
  /\ id_counter' = id_counter + 1
  /\ UNCHANGED <<storage, url_index, heap, th, history, cls, responses, b62>>

SingletonStep(t) ==
  \/ NewCall(t)
  \/ NewCheck(t)
  \/ NewAcquire(t)
  \/ NewRecheck(t)
  \/ NewAlloc(t)
  \/ NewInitStorage(t)
  \/ NewInitUrlIndex(t)
  \/ NewInitCounter(t)
  \/ NewReturn(t)
  \/ UseAdd(t)
  \/ UseNextId(t)

SingletonNext == \E t \in Threads : SingletonStep(t)

\* the process before the first construction
InitNew ==
  /\ storage = <<>>
  /\ url_index = <<>>
  /\ id_counter = 0
  /\ heap = <<>>
  /\ th = [t \in Threads |-> IdleLocals]
  /\ history = <<>>
  /\ issued = <<>>
  /\ cls = ClassUnused
  /\ responses = <<>>
  /\ b62 = B62Idle

SingletonSpec == InitNew /\ [][SingletonNext]_vars

(* ----------------------------- HTTP adapter ----------------------------- *)
\* no status is sent: the exception leaves the handler uncaught
NoResponse == 0

\* do_POST after shorten_url returned or raised: the except clauses in order
do_POST_status(outcome) ==
  IF outcome.kind = "ok" THEN 201
  ELSE IF outcome.err = "InvalidURLError" THEN 400
  ELSE IF outcome.err = "URLAlreadyExistsError" THEN 409
  ELSE NoResponse

\* do_GET after resolve_url returned or raised
do_GET_status(outcome) ==
  IF outcome.kind = "ok" THEN 302
  ELSE IF outcome.err = "ShortURLNotFoundError" THEN 404
  ELSE NoResponse

\* the handler of the last request has finished
Responded == Len(responses) = Len(history)

\* do_POST from the return of shorten_url on
DoPostRespond ==
  /\ Len(responses) < Len(history)
  /\ history[Len(responses) + 1].op = "shorten"
  /\ responses' = Append(responses, do_POST_status(history[Len(responses) + 1]))
  /\ UNCHANGED <<storage, url_index, id_counter, heap, th, history, issued, cls, b62>>

\* do_GET from the return of resolve_url on
DoGetRespond ==
  /\ Len(responses) < Len(history)
  /\ history[Len(responses) + 1].op = "resolve"
  /\ responses' = Append(responses, do_GET_status(history[Len(responses) + 1]))
  /\ UNCHANGED <<storage, url_index, id_counter, heap, th, history, issued, cls, b62>>

\* a step of the service inside a handler; HTTPServer handles one request
\* at a time
HttpStep(t) ==
  \/ Responded /\ Alone(t) /\ CallShorten(t)
  \/ Responded /\ Alone(t) /\ ShortenValidate(t)
  \/ Responded /\ Alone(t) /\ ShortenLookup(t)
  \/ Responded /\ Alone(t) /\ GenerateUniqueCode(t)
  \/ Responded /\ Alone(t) /\ NextIdRead(t)
  \/ Responded /\ Alone(t) /\ NextIdLoad(t)
  \/ Responded /\ Alone(t) /\ NextIdStore(t)
  \/ Responded /\ Alone(t) /\ AddStorage(t)
  \/ Responded /\ Alone(t) /\ AddUrlIndex(t)
  \/ Responded /\ Alone(t) /\ CallResolve(t)
  \/ Responded /\ Alone(t) /\ ResolveLookup(t)
  \/ Responded /\ Alone(t) /\ ResolveIncrement(t)

HttpNext == (\E t \in Threads : HttpStep(t)) \/ DoPostRespond \/ DoGetRespond

HttpSpec == Init /\ [][HttpNext]_vars

(* ------------------------------- base62 -------------------------------- *)
\* string.digits + string.ascii_lowercase + string.ascii_uppercase
ALPHABET ==
  <<"0", "1", "2", "3", "4", "5", "6", "7", "8", "9",
    "a", "b", "c", "d", "e", "f", "g", "h", "i", "j", "k", "l", "m",
    "n", "o", "p", "q", "r", "s", "t", "u", "v", "w", "x", "y", "z",
    "A", "B", "C", "D", "E", "F", "G", "H", "I", "J", "K", "L", "M",
    "N", "O", "P", "Q", "R", "S", "T", "U", "V", "W", "X", "Y", "Z">>

BASE == Len(ALPHABET)

\* CHAR_TO_VALUE[ch], the index of ch in ALPHABET counted from 0
CHAR_TO_VALUE(ch) == (CHOOSE idx \in 1..BASE : ALPHABET[idx] = ch) - 1

\* "".join(reversed(result))
Reversed(s) == [i \in 1..Len(s) |-> s[Len(s) + 1 - i]]

\* the list the while loop of encode_base62 builds, least significant digit first
RECURSIVE EncodeLoop(_)
EncodeLoop(number) ==
  IF number > 0
  THEN <<ALPHABET[(number % BASE) + 1]>> \o EncodeLoop(number \div BASE)
  ELSE <<>>

\* mutation of encode_base62: the digits are joined without reversed()
encode_base62_unreversed(number) ==
  IF number = 0 THEN <<ALPHABET[1]>> ELSE EncodeLoop(number)

\* encode_base62 for number >= 0
encode_base62(number) ==
  IF number = 0 THEN <<ALPHABET[1]>> ELSE Reversed(EncodeLoop(number))

\* the for loop of decode_base62 over the rest s with the value so far
RECURSIVE DecodeLoop(_, _)
DecodeLoop(s, result) ==
  IF s = <<>> THEN result
  ELSE DecodeLoop(Tail(s), result * BASE + CHAR_TO_VALUE(Head(s)))

\* decode_base62 for a string over ALPHABET
decode_base62(s) == DecodeLoop(s, 0)

\* the integers handed to encode_base62
Numbers == (-1..MaxNumber) \cup {3843}

\* code = encode_base62(num), raising ValueError for a negative number
Encode ==
  /\ b62.pc = "idle"
  /\ \E num \in Numbers :
       b62' = IF num < 0
              THEN [pc |-> "ValueError", number |-> num, text |-> <<>>, result |-> 0]
              ELSE [pc |-> "encoded", number |-> num, text |-> encode_base62(num),
                    result |-> 0]
  /\ UNCHANGED <<storage, url_index, id_counter, heap, th, history, issued, cls, responses>>

\* decode_base62(code)
Decode ==
  /\ b62.pc = "encoded"
  /\ b62' = [b62 EXCEPT !.pc = "decoded", !.result = decode_base62(b62.text)]
  /\ UNCHANGED <<storage, url_index, id_counter, heap, th, history, issued, cls, responses>>

Base62Next == Encode \/ Decode

Base62Spec == Init /\ [][Base62Next]_vars

(* ------------------------------ properties ----------------------------- *)
Calls == DOMAIN history

\* the completed shorten_url calls whose argument normalises to u
ShortenCalls(u) ==
  { i \in Calls : /\ history[i].op = "shorten"
                  /\ ~URLInvalid(history[i].arg)
                  /\ URLValue(history[i].arg) = u }

\* the completed resolve_url calls that returned the object ref
ResolvedTo(ref) ==
  { i \in Calls : history[i].op = "resolve" /\ history[i].kind = "ok" /\ history[i].ref = ref }

\* call j was started before call i returned (i returned first)
Overlap(i, j) == i < j /\ history[j].start < i

Min(S) == CHOOSE x \in S : \A y \in S : x <= y

\* C1: when callers shorten the same not yet stored URL concurrently, in
\* every interleaving exactly one call returns an entity, the others fail
\* with URLAlreadyShortened, and exactly one entity is stored for the URL.
C1_OneEntityPerConcurrentURL ==
  AllIdle =>
    \A u \in ValidURLs :
      ShortenCalls(u) # {} =>
        /\ Cardinality({ i \in ShortenCalls(u) : history[i].kind = "ok" }) = 1
        /\ \A i \in ShortenCalls(u) :
             history[i].kind = "err" => history[i].err = "URLAlreadyShortenedError"
        /\ Cardinality({ r \in Stored : heap[r].original_url = u }) = 1

C3_NextIdDistinct ==
  \A i, j \in DOMAIN issued : i # j => issued[i] # issued[j]

\* C4: from an empty repository, after any sequence of shorten_url and
\* resolve_url calls executed one at a time, no two stored entities share a
\* short_code and no two share an original_url.
C4_KeysUnique ==
  \A r1, r2 \in Stored :
    r1 # r2 => /\ heap[r1].short_code # heap[r2].short_code
               /\ heap[r1].original_url # heap[r2].original_url

\* two entities are stored and one of them has been resolved
C4_Witness ==
  /\ Cardinality(Stored) >= 2
  /\ \E i \in Calls : history[i].op = "resolve" /\ history[i].kind = "ok"

C6_UnknownCodeNotFound ==
  \A i \in Calls :
    (history[i].op = "resolve" /\ history[i].kind = "err")
      => history[i].err = "ShortURLNotFoundError"

\* C7: N sequential resolve_url calls of a stored code raise the hits of the
\* stored entity by exactly N, one per call, on the stored object itself,
\* and every call returns the same original_url.
C7_HitsCountSequentialResolves ==
  /\ \A c \in DOMAIN storage :
       heap[storage[c]].hits =
         Cardinality({ i \in Calls : /\ history[i].op = "resolve"
                                     /\ history[i].kind = "ok"
                                     /\ history[i].arg = c })
  /\ \A j \in Calls :
       (history[j].op = "resolve" /\ history[j].kind = "ok") =>
         LET earlier == { i \in Calls : /\ i < j
                                        /\ history[i].op = "resolve"
                                        /\ history[i].kind = "ok"
                                        /\ history[i].arg = history[j].arg }
         IN /\ history[j].ent.hits = Cardinality(earlier) + 1
            /\ \A i \in earlier :
                 history[i].ent.original_url = history[j].ent.original_url

\* a stored code was resolved twice in sequence
C7_Witness ==
  \E i, j \in Calls :
    /\ i < j
    /\ history[i].op = "resolve" /\ history[j].op = "resolve"
    /\ history[i].arg = history[j].arg
    /\ history[i].ent.hits = 1 /\ history[j].ent.hits = 2
    /\ history[j].arg \in DOMAIN storage
    /\ heap[storage[history[j].arg]].hits = 2

\* C8: round trip: when shorten_url(u) returned entity e, a following
\* resolve_url(e.short_code) succeeds and returns an entity with e's id and
\* short_code and with e's original_url, which is the normalised form of u.
C8_RoundTrip ==
  \A i, j \in Calls :
    ( /\ i < j
      /\ history[i].op = "shorten" /\ history[i].kind = "ok"
      /\ history[j].op = "resolve"
      /\ history[j].arg = history[i].ent.short_code )
    => /\ history[j].kind = "ok"
       /\ history[j].ent.original_url = history[i].ent.original_url
       /\ history[i].ent.original_url = URLValue(history[i].arg)
       /\ history[j].ent.id = history[i].ent.id
       /\ history[j].ent.short_code = history[i].ent.short_code

\* a URL written in upper case was shortened and its code resolved
C8_Witness ==
  \E i, j \in Calls :
    /\ i < j
    /\ history[i].op = "shorten" /\ history[i].kind = "ok"
    /\ history[i].arg # history[i].ent.original_url
    /\ history[j].op = "resolve" /\ history[j].kind = "ok"
    /\ history[j].arg = history[i].ent.short_code

\* C9: after any sequence of add calls, overwriting ones included, the two
\* indices hold the same entities: get_by_code(e.short_code) returns e if
\* and only if get_by_original(e.original_url) returns e.
C9_IndicesInSync ==
  \A ref \in Refs :
    (get_by_code(heap[ref].short_code) = ref)
      <=> (get_by_original(heap[ref].original_url) = ref)

\* C10: immediately after clear() every lookup by code and by URL is
\* absent, so a URL shortened before clear() is shortened again with success.
C10_ClearRemovesAll ==
  /\ (history # <<>> /\ history[Len(history)].op = "clear") =>
       /\ \A c \in Codes : get_by_code(c) = None
       /\ \A u \in ValidURLs : get_by_original(u) = None
  /\ \A j \in Calls :
       ( /\ j > 1
         /\ history[j - 1].op = "clear"
         /\ history[j].op = "shorten"
         /\ ~URLInvalid(history[j].arg) )
       => history[j].kind = "ok"

\* C11: the ids handed out by successive next_id calls are strictly
\* increasing, whatever repository operations (add, clear, failed
\* shorten_url calls) happen in between, so the entities created by
\* successive shorten_url calls have strictly increasing ids.
C11_IdsStrictlyIncrease ==
  /\ \A i, j \in DOMAIN issued : i < j => issued[i] < issued[j]
  /\ \A i, j \in Calls :
       ( /\ i < j
         /\ history[i].op = "shorten" /\ history[i].kind = "ok"
         /\ history[j].op = "shorten" /\ history[j].kind = "ok" )
       => history[i].ent.id < history[j].ent.id

\* two shorten_url calls created entities with another repository operation
\* or a rejected shorten_url between them
C11_Witness ==
  /\ Len(issued) >= 2
  /\ \E i, k, j \in Calls :
       /\ i < k /\ k < j
       /\ history[i].op = "shorten" /\ history[i].kind = "ok"
       /\ \/ history[k].op \in {"clear", "add"}
          \/ history[k].op = "shorten" /\ history[k].kind = "err"
       /\ history[j].op = "shorten" /\ history[j].kind = "ok"

\* C12: every shorten_url call leaves the candidate loop of
\* _generate_unique_code, also when the whole code space is stored: a
\* caller inside the loop always has a candidate that ends it (returning
\* a candidate that is not stored is the only exit of the loop, and calls
\* run one at a time, so no other caller frees a code meanwhile).
C12_GenerateLoopEnds ==
  \A t \in Threads :
    th[t].pc = "generate" => \E c \in Generate : UniqueCode(c)

\* the number of leading characters of raw that spell scheme and host
PrefixLen(raw) == Len(raw) - Len(urlparse(raw).path)

\* r1 and r2 are different spellings that differ only in the letter case of
\* scheme and host
CaseVariant(r1, r2) ==
  /\ r1 # r2
  /\ Len(r1) = Len(r2)
  /\ PrefixLen(r1) = PrefixLen(r2)
  /\ \A k \in 1..Len(r1) :
       \/ r1[k] = r2[k]
       \/ k <= PrefixLen(r1) /\ LowerChar(r1[k]) = LowerChar(r2[k])

\* r1 and r2 differ in the letter case of a character of the path
PathCaseDiffers(r1, r2) ==
  /\ Len(r1) = Len(r2)
  /\ PrefixLen(r1) = PrefixLen(r2)
  /\ Lower(r1) = Lower(r2)
  /\ \E k \in (PrefixLen(r1) + 1)..Len(r1) : r1[k] # r2[k]

ValidShorten(i) == history[i].op = "shorten" /\ ~URLInvalid(history[i].arg)

C14_InvalidURLRejected ==
  \A i \in Calls :
    ( /\ history[i].op = "shorten"
      /\ \/ urlparse(history[i].arg).scheme = <<>>
         \/ urlparse(history[i].arg).netloc = <<>>
         \/ urlparse(history[i].arg).scheme \notin {HTTP, HTTPS} )
    => history[i].kind = "err" /\ history[i].err = "InvalidURLError"

\* an ftp URL was rejected while the repository held an entity
C14_Witness ==
  \E i \in Calls :
    /\ history[i].op = "shorten"
    /\ history[i].err = "InvalidURLError"
    /\ urlparse(history[i].arg).scheme = <<"f", "t", "p">>
    /\ Stored # {}
    /\ \E k \in 1..(i - 1) : history[k].kind = "ok" /\ history[k].op \in {"shorten", "add"}

\* C18: add makes the entity observable: right after add(e) both
\* get_by_code(e.short_code) and get_by_original(e.original_url) return e,
\* and get_by_code of a code that was never added returns absent.
C18_AddObservable ==
  /\ (history # <<>> /\ history[Len(history)].op = "add") =>
       LET ref == history[Len(history)].ref
       IN /\ get_by_code(heap[ref].short_code) = ref
          /\ get_by_original(heap[ref].original_url) = ref
  /\ \A c \in Codes :
       (\A i \in Calls : history[i].op = "add" => history[i].arg # c)
         => get_by_code(c) = None

\* an entity was added over another one's URL while a code was never added
C18_Witness ==
  /\ Len(history) >= 2
  /\ history[Len(history)].op = "add"
  /\ \E i \in 1..(Len(history) - 1) :
       /\ history[i].ref # history[Len(history)].ref
       /\ heap[history[i].ref].original_url = heap[history[Len(history)].ref].original_url
  /\ \E c \in Codes : \A i \in Calls : history[i].arg # c

\* C20: in every interleaving of concurrent shorten_url calls for different
\* URLs, no two created entities get the same short_code, also when the
\* generator hands the same candidate to two callers.
C20_ConcurrentCodesDistinct ==
  \A i, j \in Calls :
    ( /\ i # j
      /\ history[i].op = "shorten" /\ history[i].kind = "ok"
      /\ history[j].op = "shorten" /\ history[j].kind = "ok"
      /\ history[i].ent.original_url # history[j].ent.original_url )
    => history[i].ent.short_code # history[j].ent.short_code

\* C15: decode_base62(encode_base62(n)) = n for every n >= 0, and
\* encode_base62(0) = "0".
C15_Base62RoundTrip ==
  /\ b62.pc = "decoded" => b62.result = b62.number
  /\ (b62.pc \in {"encoded", "decoded"} /\ b62.number = 0) => b62.text = <<"0">>

\* a number of more than one base62 digit was encoded and decoded
C15_Witness ==
  /\ b62.pc = "decoded"
  /\ b62.number >= BASE
  /\ Len(b62.text) >= 2

\* C16: encode_base62 writes the largest digit, 61, as the lower-case "z":
\* encode_base62(61) = "z", encode_base62(62) = "10", encode_base62(3843) =
\* "zz", and every number whose last base62 digit is 61 ends in "z".
C16_LastDigitLowerZ ==
  b62.pc \in {"encoded", "decoded"} =>
    /\ b62.number = 61 => b62.text = <<"z">>
    /\ b62.number = 62 => b62.text = <<"1", "0">>
    /\ b62.number = 3843 => b62.text = <<"z", "z">>
    /\ b62.number % 62 = 61 => b62.text[Len(b62.text)] = "z"

\* C17: the HTTP adapter maps every outcome of the core to its status: an
\* invalid URL to 400, an already shortened URL to 409, an unknown code to
\* 404, a successful shorten to 201 and a successful resolve to 302; no
\* service error leaves the handler unmapped.
C17_StatusMapping ==
  \A k \in DOMAIN responses :
    LET h == history[k]
    IN /\ responses[k] # NoResponse
       /\ (h.op = "shorten" /\ h.kind = "ok") => responses[k] = 201
       /\ (h.op = "shorten" /\ URLInvalid(h.arg)) => responses[k] = 400
       /\ (h.op = "shorten" /\ ~URLInvalid(h.arg) /\ h.kind = "err") => responses[k] = 409
       /\ (h.op = "resolve" /\ h.kind = "ok") => responses[k] = 302
       /\ (h.op = "resolve" /\ h.kind = "err") => responses[k] = 404

\* C19: there is one repository per process: every construction, in any
\* interleaving of concurrent first constructions, returns the same
\* instance, and its indices and id counter are initialised exactly once:
\* a later construction resets neither the stored entities nor the counter.
C19_OneInstance ==
  /\ \A i, j \in DOMAIN cls.log : cls.log[i].instance = cls.log[j].instance
  /\ cls.objects <= 1
  /\ \A a \in Attributes : cls.inits[a] <= 1
  /\ \A i \in Calls :
       (history[i].op = "add" /\ history[i].kind = "ok") =>
         /\ get_by_code(history[i].arg) # None
         /\ get_by_original(history[i].ent.original_url) # None
  /\ "_id_counter" \in cls.attrs => id_counter = 1 + Len(issued)

\* two first constructions overlapped, one created the instance and the
\* other found it inside the lock; a later one returned it without the lock,
\* while an entity is stored and an id has been handed out
C19_Witness ==
  /\ \E i, j, k \in DOMAIN cls.log :
       /\ cls.log[i].path = "return_created"
       /\ cls.log[j].path = "return_rechecked"
       /\ cls.log[k].path = "return_fast"
  /\ \E i \in Calls : history[i].op = "add" /\ history[i].kind = "ok"
  /\ issued # <<>>

\* the completed shorten_url calls that returned an entity
Shortened == { i \in Calls : history[i].op = "shorten" /\ history[i].kind = "ok" }

\* C21: stored mappings are permanent: once shorten_url has returned an
\* entity with code c and original_url u, in every later state of any
\* interleaving of shorten_url and resolve_url calls the code index still
\* holds that entity under c, and every resolve_url(c) called afterwards
\* succeeds and returns u.
C21_MappingsPermanent ==
  \A i \in Shortened :
    LET c == history[i].ent.short_code
        u == history[i].ent.original_url
    IN /\ get_by_code(c) = history[i].ref
       /\ heap[history[i].ref].original_url = u
       /\ \A j \in Calls :
            (j > i /\ history[j].start >= i /\ history[j].op = "resolve" /\ history[j].arg = c)
              => history[j].kind = "ok" /\ history[j].ent.original_url = u

\* the contents of the repository: both indices, every entity and the counter
Repository == <<storage, url_index, id_counter, heap>>

\* the last completed call is a shorten_url that raised
ShortenRaised(h) ==
  h # <<>> /\ h[Len(h)].op = "shorten" /\ h[Len(h)].kind = "err"

\* C22: a shorten_url call that fails, with InvalidURL or with
\* URLAlreadyShortened, leaves the repository as it was before the call:
\* with calls made one at a time, between calls the id counter has advanced
\* once per successful shorten_url only, the indices hold the codes and URLs
\* of the successful calls only, only those calls created an entity, hits
\* count the resolutions, and the step on which the call raises changes
\* neither index, no entity and not the counter.
C22_FailedShortenChangesNothing ==
  /\ [](AllIdle =>
          /\ id_counter = 1 + Cardinality(Shortened)
          /\ issued = [k \in 1..Cardinality(Shortened) |-> k]
          /\ DOMAIN storage = { history[i].ent.short_code : i \in Shortened }
          /\ DOMAIN url_index = { history[i].ent.original_url : i \in Shortened }
          /\ Len(heap) = Cardinality(Shortened)
          /\ \A ref \in Refs : heap[ref].hits = Cardinality(ResolvedTo(ref)))
  /\ [][(Len(history') = Len(history) + 1 /\ ShortenRaised(history'))
          => UNCHANGED <<Repository, issued>>]_vars

\* after a successful shorten_url, one call was rejected as invalid and one
\* as a duplicate
C22_Witness ==
  /\ AllIdle
  /\ \E i, j, k \in Calls :
       /\ i < j /\ i < k
       /\ i \in Shortened
       /\ history[j].op = "shorten" /\ history[j].err = "InvalidURLError"
       /\ history[k].op = "shorten" /\ history[k].err = "URLAlreadyShortenedError"

\* a step of a resolve_url call: its start, its lookup or its increment
ResolveStep ==
  \E t \in Threads :
    /\ th'[t] # th[t]
    /\ th[t].op = "resolve" \/ th'[t].op = "resolve"

\* the step returns from a resolve_url call with an entity
ResolveReturned ==
  /\ Len(history') = Len(history) + 1
  /\ history'[Len(history')].op = "resolve"
  /\ history'[Len(history')].kind = "ok"

\* C23: resolve_url changes nothing except the hits of the resolved entity:
\* every step of a resolve_url call leaves both indices, the id counter and
\* the id, original_url and short_code of every entity unchanged; a call
\* that returns changes the hits of the entity stored under its code only,
\* a call that raises changes no entity at all; and no step of any call
\* lowers the hits of an entity.
C23_ResolveChangesHitsOnly ==
  [][/\ \A ref \in Refs : heap'[ref].hits >= heap[ref].hits
     /\ ResolveStep =>
          /\ UNCHANGED <<storage, url_index, id_counter, issued>>
          /\ Len(heap') = Len(heap)
          /\ \A ref \in Refs :
               /\ heap'[ref].id = heap[ref].id
               /\ heap'[ref].original_url = heap[ref].original_url
               /\ heap'[ref].short_code = heap[ref].short_code
          /\ IF ResolveReturned
             THEN LET resolved == get_by_code(history'[Len(history')].arg)
                  IN /\ resolved = history'[Len(history')].ref
                     /\ \A ref \in Refs \ {resolved} : heap'[ref].hits = heap[ref].hits
             ELSE heap' = heap]_vars

\* one of two stored entities was resolved and the other has no hits
C23_Witness ==
  /\ AllIdle
  /\ \E i \in Calls :
       /\ history[i].op = "resolve" /\ history[i].kind = "ok"
       /\ heap[history[i].ref].hits = 1
       /\ \E c \in DOMAIN storage :
            /\ storage[c] # history[i].ref
            /\ heap[storage[c]].hits = 0

====
